---- MODULE Spec2Model ----
(***************************************************************************)
(* Model of sourcetools: Source construction and line-ending               *)
(* normalisation (utility.py), the Metrics offset <-> line-column index,   *)
(* Location and the Range algebra (source.py).                             *)
(*                                                                         *)
(* Text is a sequence of one-character strings; a Python offset o is the   *)
(* TLA+ index o + 1.  A call's outcome is a record [tag, val]: tag "ok"    *)
(* carries the returned value, tag "None" is Python's None, and any other  *)
(* tag is the name of the exception the call raised.                       *)
(***************************************************************************)
EXTENDS Integers, Sequences, FiniteSets

\* source:  <<>> before construction, else <<s>> with s the Source object
\* metrics: <<>> or <<m>>, a Metrics(source, max_search) built by the caller
\* call:    the last call made, its arguments and its outcome
VARIABLES source, metrics, call

\* diagnostic: <<>> before construction, else <<d>> with d the Diagnostic
\* given:      the Annotations handed to Diagnostic() and then to add_cause,
\*             in call order (a history of the calls, not program state)
VARIABLES diagnostic, given

vars == <<source, metrics, call, diagnostic, given>>

\* ---------------------------------------------------------------- bounds
\* longest raw text handed to Source() in the construction specification
MaxLen == 4
\* longest text of the Metrics / Location / Range specifications
MaxText == 4
\* largest explicit sampling interval handed to Metrics()
MaxSearch == 3

\* number of distinct Annotation objects handed to a Diagnostic
MaxAnnotations == 3
\* most add_cause calls made on one Diagnostic
MaxCauses == 3

\* ------------------------------------------------------------- constants
LF == "\n"
CR == "\r"
\* Metrics.__init__ default max_search
DefaultMaxSearch == 128

Chars == {"a", " ", LF, CR}
TextChars == {"a", LF}
PrintChars == {"a", " ", LF}

RECURSIVE TextsOver(_, _)
TextsOver(alphabet, n) ==
    IF n = 0 THEN {<<>>}
    ELSE LET shorter == TextsOver(alphabet, n - 1)
         IN  shorter \cup {Append(t, c) : t \in {s \in shorter : Len(s) = n - 1}, c \in alphabet}

RawTexts == TextsOver(Chars, MaxLen)
Texts == TextsOver(TextChars, MaxText)
PrintTexts == TextsOver(PrintChars, MaxText)

\* ----------------------------------------------------- outcomes of a call
Ok(v) == [tag |-> "ok", val |-> v]
PyNone == [tag |-> "None", val |-> <<>>]
Raise(e) == [tag |-> e, val |-> <<>>]
IsOk(r) == r.tag = "ok"
IsError(r) == r.tag \notin {"ok", "None"}

Max(S) == CHOOSE x \in S : \A y \in S : y <= x
Min(S) == CHOOSE x \in S : \A y \in S : x <= y

\* ------------------------------------------------------------ utility.py
\* LineEnding.value of the two string-valued members
LineEndingValue(le) == IF le = "CRLF" THEN <<CR, LF>> ELSE <<LF>>

LineEndings == {"LF", "CRLF", "DETECT"}

\* Python's `sub in s` on strings
Contains(s, sub) ==
    \E i \in 1..(Len(s) - Len(sub) + 1) : SubSeq(s, i, i + Len(sub) - 1) = sub

\* Python's str.replace: leftmost non-overlapping occurrences
RECURSIVE Replace(_, _, _)
Replace(s, old, new) ==
    IF Len(s) < Len(old) THEN s
    ELSE IF SubSeq(s, 1, Len(old)) = old
         THEN new \o Replace(SubSeq(s, Len(old) + 1, Len(s)), old, new)
         ELSE <<Head(s)>> \o Replace(Tail(s), old, new)

detect_line_endings(content) ==
    IF Contains(content, <<CR, LF>>) THEN "CRLF"
    ELSE IF Contains(content, <<LF>>) THEN "LF"
    ELSE "None"

\* normalise_line_endings(content, current, new=LineEnding.LF)
normalise_line_endings(content, current) ==
    IF current = "LF" THEN Ok(content)
    ELSE LET cur == IF current = "DETECT" THEN detect_line_endings(content) ELSE current
         IN  IF cur # "None"
             THEN Ok(Replace(content, LineEndingValue(cur), LineEndingValue("LF")))
             ELSE PyNone

\* ------------------------------------------------------------- source.py
LineCol(l, c) == [line |-> l, col |-> c]

\* @dataclass(order=True): LineCol compares as the tuple (line, col)
LineColLess(a, b) == a.line < b.line \/ (a.line = b.line /\ a.col < b.col)

\* list.index(x) as a 1-based position: the first one holding x
IndexOf(seq, x) == Min({i \in 1..Len(seq) : seq[i] = x})

\* Python's `x in seq`
InSeq(x, seq) == \E i \in 1..Len(seq) : seq[i] = x

\* count_linecols(source, offset, linecol): the (offset, LineCol) pairs it
\* yields, in order
RECURSIVE count_linecols(_, _, _)
count_linecols(content, offset, linecol) ==
    IF offset >= Len(content) THEN <<>>
    ELSE <<[offset |-> offset, linecol |-> linecol]>> \o
         count_linecols(content, offset + 1,
             IF content[offset + 1] = LF
             THEN LineCol(linecol.line + 1, 1)
             ELSE LineCol(linecol.line, linecol.col + 1))

\* bisect.bisect_left(sequence, value) on a list of ints
RECURSIVE bisect_left_int(_, _, _, _)
bisect_left_int(sequence, value, lo, hi) ==
    IF lo >= hi THEN lo
    ELSE LET mid == (lo + hi) \div 2
         IN  IF sequence[mid + 1] < value
             THEN bisect_left_int(sequence, value, mid + 1, hi)
             ELSE bisect_left_int(sequence, value, lo, mid)

\* bisect.bisect_left(sequence, value) on a list of LineCols
RECURSIVE bisect_left_linecol(_, _, _, _)
bisect_left_linecol(sequence, value, lo, hi) ==
    IF lo >= hi THEN lo
    ELSE LET mid == (lo + hi) \div 2
         IN  IF LineColLess(sequence[mid + 1], value)
             THEN bisect_left_linecol(sequence, value, mid + 1, hi)
             ELSE bisect_left_linecol(sequence, value, lo, mid)

\* lower_bound_index over offsets that forgets to step back to the element
\* before the insertion point
lower_bound_index_int_no_step_back(sequence, value) ==
    bisect_left_int(sequence, value, 0, Len(sequence))

\* lower_bound_index over offsets; the result is a 0-based index
lower_bound_index_int(sequence, value) ==
    LET index == bisect_left_int(sequence, value, 0, Len(sequence))
    IN  IF index # 0 THEN index - 1 ELSE 0

\* lower_bound_index that forgets to step back to the element before the
\* insertion point
lower_bound_index_linecol_no_step_back(sequence, value) ==
    bisect_left_linecol(sequence, value, 0, Len(sequence))

\* lower_bound_index over LineCols; the result is a 0-based index
lower_bound_index_linecol(sequence, value) ==
    LET index == bisect_left_linecol(sequence, value, 0, Len(sequence))
    IN  IF index # 0 THEN index - 1 ELSE 0

\* range(0, len(source), max_search) as a list
RECURSIVE RangeStep(_, _, _)
RangeStep(from, to, step) ==
    IF from >= to THEN <<>> ELSE <<from>> \o RangeStep(from + step, to, step)

\* Python's [x for x in seq if keep(x)] on the pairs of count_linecols,
\* keeping the LineCols whose offset is a checkpoint
RECURSIVE SampledLinecols(_, _)
SampledLinecols(pairs, offsets) ==
    IF pairs = <<>> THEN <<>>
    ELSE (IF InSeq(Head(pairs).offset, offsets) THEN <<Head(pairs).linecol>> ELSE <<>>)
         \o SampledLinecols(Tail(pairs), offsets)

\* _LineColMap._make_map and __init__: the sparse checkpoint lists
LineColMap(content, max_search) ==
    LET offsets == RangeStep(0, Len(content), max_search)
    IN  [source |-> content,
         offsets |-> offsets,
         linecols |-> SampledLinecols(count_linecols(content, 0, LineCol(1, 1)), offsets)]

\* the scan loop of get_offset over the pairs count_linecols yields: the
\* offset of the first pair whose LineCol is `linecol`, None when the loop
\* runs off the end
ScanForLinecol(pairs, linecol) ==
    IF \E i \in 1..Len(pairs) : pairs[i].linecol = linecol
    THEN Ok(pairs[Min({i \in 1..Len(pairs) : pairs[i].linecol = linecol})].offset)
    ELSE PyNone

\* the scan loop of get_linecol: the LineCol of the first pair whose offset
\* is `offset`, None when the loop runs off the end
ScanForOffset(pairs, offset) ==
    IF \E i \in 1..Len(pairs) : pairs[i].offset = offset
    THEN Ok(pairs[Min({i \in 1..Len(pairs) : pairs[i].offset = offset})].linecol)
    ELSE PyNone

\* _LineColMap._get(index) followed by count_linecols from that checkpoint;
\* `index` is 0-based and an index past the lists is an IndexError
ScanFrom(map, index) ==
    IF index + 1 > Len(map.offsets) \/ index + 1 > Len(map.linecols)
    THEN Raise("IndexError")
    ELSE Ok(count_linecols(map.source, map.offsets[index + 1], map.linecols[index + 1]))

\* get_offset after the lookup of the checkpoint
GetOffsetScan(scan, linecol) ==
    IF IsError(scan) THEN scan ELSE ScanForLinecol(scan.val, linecol)

\* get_linecol after the lookup of the checkpoint
GetLinecolScan(scan, offset) ==
    IF IsError(scan) THEN scan ELSE ScanForOffset(scan.val, offset)

\* _LineColMap.get_offset
LineColMap_get_offset(map, linecol) ==
    IF InSeq(linecol, map.linecols)
    THEN Ok(map.offsets[IndexOf(map.linecols, linecol)])
    ELSE GetOffsetScan(ScanFrom(map, lower_bound_index_linecol(map.linecols, linecol)),
                       linecol)

\* _LineColMap.get_linecol
LineColMap_get_linecol(map, offset) ==
    IF InSeq(offset, map.offsets)
    THEN Ok(map.linecols[IndexOf(map.offsets, offset)])
    ELSE GetLinecolScan(ScanFrom(map, lower_bound_index_int(map.offsets, offset)),
                        offset)

\* Metrics._make_linecol_counts: the dict line -> column of the line's '\n'.
\* Keys are inserted in increasing line order, one per '\n' of the text.
make_linecol_counts(content) ==
    LET pairs == count_linecols(content, 0, LineCol(1, 1))
        newlines == {i \in 1..Len(pairs) : content[pairs[i].offset + 1] = LF}
    IN  [line \in {pairs[i].linecol.line : i \in newlines} |->
            pairs[CHOOSE i \in newlines : pairs[i].linecol.line = line].linecol.col]

\* Metrics.__init__
Metrics(content, max_search) ==
    [source |-> content,
     linecol_map |-> LineColMap(content, max_search),
     linecol_counts |-> make_linecol_counts(content)]

\* Metrics.valid_linecol
valid_linecol(m, linecol) ==
    /\ linecol.line \in DOMAIN m.linecol_counts
    /\ 0 < linecol.col
    /\ linecol.col <= m.linecol_counts[linecol.line]

\* Metrics.valid_offset
valid_offset(m, offset) == 0 <= offset /\ offset <= Len(m.source)

\* Metrics.line_count
line_count(m) == Cardinality(DOMAIN m.linecol_counts)

\* Metrics.valid_line
valid_line(m, line) == 1 <= line /\ line <= line_count(m)

\* Metrics.get_offset
get_offset(m, linecol) ==
    IF ~valid_linecol(m, linecol) THEN Raise("ValueError")
    ELSE LineColMap_get_offset(m.linecol_map, linecol)

\* Metrics.get_linecol; list(dict.items())[-1] is the item inserted last,
\* the one with the greatest line, and an IndexError on an empty dict
get_linecol(m, offset) ==
    IF ~valid_offset(m, offset) THEN Raise("ValueError")
    ELSE IF offset = Len(m.source)
         THEN IF DOMAIN m.linecol_counts = {} THEN Raise("IndexError")
              ELSE LET last == Max(DOMAIN m.linecol_counts)
                   IN  Ok(LineCol(last, m.linecol_counts[last]))
         ELSE LineColMap_get_linecol(m.linecol_map, offset)

\* Metrics.get_line_start_offset
get_line_start_offset(m, line) ==
    IF ~valid_line(m, line) THEN Raise("ValueError")
    ELSE get_offset(m, LineCol(line, 1))

\* Metrics.get_line_end_offset
get_line_end_offset(m, line) ==
    IF ~valid_line(m, line) THEN Raise("ValueError")
    ELSE IF line \notin DOMAIN m.linecol_counts THEN Raise("KeyError")
    ELSE get_offset(m, LineCol(line, m.linecol_counts[line]))

\* Source.__init__ after normalise_line_endings: the constructed object, or
\* the exception raised
SourceOf(normalised, line_ending) ==
    IF normalised.tag = "None" THEN Raise("LineEndingDetectionFailed")
    ELSE Ok([content |-> normalised.val,
             line_ending |-> line_ending,
             metrics |-> Metrics(normalised.val, DefaultMaxSearch)])

\* Source.__init__
Source(content, line_ending) ==
    SourceOf(normalise_line_endings(content, line_ending), line_ending)

\* Location.__init__ after get_linecol; linecol holds what get_linecol
\* returned (a LineCol or None)
LocationOf(offset, linecol) ==
    IF IsError(linecol) THEN linecol
    ELSE Ok([offset |-> offset, linecol |-> linecol])

\* Location.__init__
Location(src, offset) ==
    IF ~valid_offset(src.metrics, offset) THEN Raise("ValueError")
    ELSE LocationOf(offset, get_linecol(src.metrics, offset))

\* Location.line
Location_line(location) ==
    IF location.linecol.tag = "None" THEN Raise("AttributeError")
    ELSE Ok(location.linecol.val.line)

\* Location.is_newline
Location_is_newline(src, location) == src.content[location.offset + 1] = LF

\* Range.__init__
Range(src, begin, end) ==
    IF valid_offset(src.metrics, begin) /\ valid_offset(src.metrics, end) /\ begin <= end
    THEN Ok([begin |-> begin, end |-> end])
    ELSE Raise("ValueError")

\* Range.__eq__: equal hashes of (source, begin, end), taken as equality of
\* the hashed tuples
Range_eq(a, b) == <<a.begin, a.end>> = <<b.begin, b.end>>

\* Range.__lt__ that joins the two tests with `or` instead of `!=`
Range_lt_or(self, rhs) ==
    \/ rhs.begin <= self.begin /\ self.begin < rhs.end /\ self.end < rhs.end
    \/ rhs.begin < self.begin /\ self.begin < rhs.end /\ self.end <= rhs.end

\* Range.__lt__
Range_lt(self, rhs) ==
    LET includes_begin == /\ rhs.begin <= self.begin
                          /\ self.begin < rhs.end
                          /\ self.end < rhs.end
        includes_end == /\ rhs.begin < self.begin
                        /\ self.begin < rhs.end
                        /\ self.end <= rhs.end
    IN  includes_begin # includes_end

\* Range.__contains__ that treats the range as closed at its end
Range_contains_closed(self, location) ==
    self.begin <= location.offset /\ location.offset <= self.end

\* Range.__contains__
Range_contains(self, location) ==
    self.begin <= location.offset /\ location.offset < self.end

\* RangePair(begin, end) of two Locations, or the exception of the first one
\* that failed
LocationsOf(begin, end) ==
    IF IsError(begin) THEN begin
    ELSE IF IsError(end) THEN end
    ELSE Ok([begin |-> begin.val, end |-> end.val])

\* Range.locations
Range_locations(src, self) ==
    LocationsOf(Location(src, self.begin), Location(src, self.end))

\* one step of any(location in self for location in rhs): Range.__iter__
\* builds each Location in turn and any() stops at the first one inside self
RECURSIVE AnyLocationIn(_, _, _, _)
AnyLocationStep(src, self, rhs, offset, location) ==
    IF IsError(location) THEN location
    ELSE IF Range_contains(self, location.val) THEN Ok(TRUE)
    ELSE AnyLocationIn(src, self, rhs, offset + 1)

\* any(location in self for location in rhs), from offset on
AnyLocationIn(src, self, rhs, offset) ==
    IF offset >= rhs.end THEN Ok(FALSE)
    ELSE AnyLocationStep(src, self, rhs, offset, Location(src, offset))

\* Range.__and__ after the any() test
RangeAndOf(src, self, rhs, found) ==
    IF IsError(found) THEN found
    ELSE IF ~found.val THEN PyNone
    ELSE Range(src, Max({self.begin, rhs.begin}), Min({self.end, rhs.end}))

\* Range.__and__
Range_and(src, self, rhs) ==
    RangeAndOf(src, self, rhs, AnyLocationIn(src, self, rhs, rhs.begin))

\* .begin.line or .end.line of a RangePair of Locations
LineOf(locations, which) ==
    IF IsError(locations) THEN locations
    ELSE Location_line(IF which = "begin" THEN locations.val.begin ELSE locations.val.end)

\* the line of one end of self.locations, which builds both Locations
LocationsLine(src, self, which) == LineOf(Range_locations(src, self), which)

\* get_line_start_offset of a line number that may have failed to evaluate
LineStartOffset(src, line) ==
    IF IsError(line) THEN line ELSE get_line_start_offset(src.metrics, line.val)

\* get_line_end_offset of a line number that may have failed to evaluate
LineEndOffset(src, line) ==
    IF IsError(line) THEN line ELSE get_line_end_offset(src.metrics, line.val)

\* the Range built by full_lines from its two arguments: they are evaluated
\* in order, and a None offset fails the comparisons of valid_offset with a
\* TypeError
FullLinesOf(src, begin, end) ==
    IF IsError(begin) THEN begin
    ELSE IF IsError(end) THEN end
    ELSE IF begin.tag = "None" \/ end.tag = "None" THEN Raise("TypeError")
    ELSE Range(src, begin.val, end.val)

\* Range.full_lines
full_lines(src, self) ==
    FullLinesOf(src,
                LineStartOffset(src, LocationsLine(src, self, "begin")),
                LineEndOffset(src, LocationsLine(src, self, "end")))

\* yield Line(...): the Lines yielded so far with one more, or the exception
\* of its construction
YieldLine(lines, line) ==
    IF IsError(line) THEN line ELSE Ok(Append(lines, line.val))

RECURSIVE EachLineFrom(_, _, _, _, _)
\* the rest of each_line once a Line was yielded at a newline
EachLineAfterYield(src, self, offset, yielded) ==
    IF IsError(yielded) THEN yielded
    ELSE EachLineFrom(src, self, offset + 1, <<>>, yielded.val)

\* the body of the loop of each_line for one Location; `begin` is <<>> for
\* None and is set by the first Location after a yield
EachLineStep(src, self, offset, begin, lines, location) ==
    IF IsError(location) THEN location
    ELSE IF Location_is_newline(src, location.val)
         THEN EachLineAfterYield(src, self, offset,
                  YieldLine(lines,
                      Range(src,
                            IF begin = <<>> THEN location.val.offset ELSE begin[1],
                            location.val.offset)))
         ELSE EachLineFrom(src, self, offset + 1,
                           IF begin = <<>> THEN <<location.val.offset>> ELSE begin,
                           lines)

\* Range.each_line from `offset` on, `lines` being the Lines yielded so far
EachLineFrom(src, self, offset, begin, lines) ==
    IF offset >= self.end
    THEN IF begin # <<>>
         THEN YieldLine(lines, Range(src, begin[1], self.end))
         ELSE Ok(lines)
    ELSE EachLineStep(src, self, offset, begin, lines, Location(src, offset))

\* Range.each_line: the Lines it yields, or the exception that ends it
each_line(src, self) == EachLineFrom(src, self, self.begin, <<>>, <<>>)

\* Line.line_number
line_number(src, self) == LocationsLine(src, self, "begin")

\* --------------------------------------------------------- diagnostics.py
\* Diagnostic.__init__; an Annotation is an opaque object to a Diagnostic
Diagnostic(top) == [top |-> top, rest |-> <<>>]

\* Diagnostic.__len__
Diagnostic_len(self) == 1 + Len(self.rest)

\* Diagnostic.__iter__: the Annotations it yields, in order
Diagnostic_iter(self) == <<self.top>> \o self.rest

\* add_cause that puts the cause in front of the earlier ones
Diagnostic_add_cause_first(self, cause) == [self EXCEPT !.rest = <<cause>> \o @]

\* Diagnostic.add_cause: self after the append, which is also what it returns
Diagnostic_add_cause(self, cause) == [self EXCEPT !.rest = Append(@, cause)]

\* Diagnostic.root_cause
Diagnostic_root_cause(self) ==
    IF Len(self.rest) > 0 THEN self.rest[Len(self.rest)] ELSE self.top

\* Range.line_numbers: list(range(begin.line, end.line + 1)) of a RangePair
LineNumbersOf(locations) ==
    IF IsError(locations) THEN locations
    ELSE IF locations.val.begin.linecol.tag = "None" \/ locations.val.end.linecol.tag = "None"
         THEN Raise("AttributeError")
         ELSE Ok([i \in 1..(locations.val.end.linecol.val.line + 1
                            - locations.val.begin.linecol.val.line) |->
                     locations.val.begin.linecol.val.line + i - 1])

\* Range.line_numbers
Range_line_numbers(src, self) == LineNumbersOf(Range_locations(src, self))

\* Range.chars
Range_chars(src, self) == SubSeq(src.content, self.begin + 1, self.end)

\* Annotation.__init__ after range_.full_lines(); msg is not modelled
AnnotationOf(range, kind, full) ==
    IF IsError(full) THEN full
    ELSE Ok([range |-> range, kind |-> kind, full_lines |-> full.val])

\* Annotation.__init__
Annotation(src, range, kind) == AnnotationOf(range, kind, full_lines(src, range))

\* ------------------------------------------------------------- display.py
\* PrintOpts(): the default options
PrintOpts ==
    [source_indent_left |-> 4,
     source_show_line_nums |-> TRUE,
     source_show_gutter |-> TRUE,
     source_gutter_char |-> "|",
     source_margin |-> 1,
     source_show_indicator |-> TRUE,
     source_indicate_leading_whitespace |-> FALSE,
     source_indicate_char |-> "^",
     show_header |-> TRUE,
     show_source |-> TRUE,
     newline_after_header |-> TRUE]

AnnotationKinds == {"NOTE", "WARN", "ERROR", "FATAL"}

\* Printer.__init__ without options: every kind has the default PrintOpts
Printer == [kind \in AnnotationKinds |-> PrintOpts]

\* ch * n
Repeat(ch, n) == [i \in 1..n |-> ch]

\* str(n) of a natural number, as its decimal digits
RECURSIVE Str(_)
Str(n) ==
    LET digit == <<"0", "1", "2", "3", "4", "5", "6", "7", "8", "9">>[(n % 10) + 1]
    IN  IF n < 10 THEN <<digit>> ELSE Append(Str(n \div 10), digit)

\* str.rjust(width)
Rjust(str, width) == Repeat(" ", width - Len(str)) \o str

\* str.isspace() of one character
IsSpace(ch) == ch \in {" ", LF, CR}

\* int(log10(n)) of a positive integer
RECURSIVE Log10Floor(_)
Log10Floor(n) == IF n < 10 THEN 0 ELSE 1 + Log10Floor(n \div 10)

\* int(log10(max(line_numbers))) + 1: max of an empty list and log10 of a
\* number below 1 raise ValueError
LineNumsWidth(line_numbers) ==
    IF IsError(line_numbers) THEN line_numbers
    ELSE IF line_numbers.val = <<>> THEN Raise("ValueError")
    ELSE IF Max({line_numbers.val[i] : i \in 1..Len(line_numbers.val)}) < 1
         THEN Raise("ValueError")
         ELSE Ok(Log10Floor(Max({line_numbers.val[i] : i \in 1..Len(line_numbers.val)})) + 1)

\* the text both print_source_line and print_indicator_line put before the
\* source columns: indent, `number` (the line number or a gap), gutter, margin
LinePrefix(opts, number) ==
    Repeat(" ", opts.source_indent_left)
        \o (IF opts.source_show_line_nums THEN number ELSE <<>>)
        \o (IF opts.source_show_gutter THEN <<" ", opts.source_gutter_char>> ELSE <<>>)
        \o Repeat(" ", opts.source_margin)

\* print_source_line given the outcome of line.line_number, which the code
\* reads only under `if opts.source_show_line_nums`
SourceLineOf(src, line, opts, line_nums_width, number) ==
    IF opts.source_show_line_nums
    THEN IF IsError(number) THEN number
         ELSE Ok(LinePrefix(opts, Rjust(Str(number.val), line_nums_width))
                 \o Range_chars(src, line))
    ELSE Ok(LinePrefix(opts, <<>>) \o Range_chars(src, line))

\* Printer.print_source_line
print_source_line(src, line, opts, line_nums_width) ==
    SourceLineOf(src, line, opts, line_nums_width, line_number(src, line))

\* the loop of print_indicator_line: the index of the first character that
\* is no whitespace, 0 when there is none
SkipCount(chars) ==
    IF \E i \in 1..Len(chars) : ~IsSpace(chars[i])
    THEN Min({i \in 1..Len(chars) : ~IsSpace(chars[i])}) - 1
    ELSE 0

\* Printer.print_indicator_line
print_indicator_line(src, indicate, line, opts, line_nums_width) ==
    LinePrefix(opts, Rjust(<<>>, line_nums_width))
        \o Repeat(" ", IF opts.source_indicate_leading_whitespace THEN 0
                       ELSE SkipCount(Range_chars(src, indicate)))
        \o Repeat(opts.source_indicate_char,
                  (indicate.end - indicate.begin)
                  - (IF opts.source_indicate_leading_whitespace THEN 0
                     ELSE SkipCount(Range_chars(src, indicate))))

\* str.join of the parts of a StringBuilder
RECURSIVE Join(_, _)
Join(parts, sep) ==
    IF parts = <<>> THEN <<>>
    ELSE IF Len(parts) = 1 THEN parts[1]
    ELSE parts[1] \o sep \o Join(Tail(parts), sep)

RECURSIVE PrintSourceLines(_, _, _, _, _, _, _)
\* the body of the loop of print_source for lines[i], given the source line
\* printed for it and the outcome of `line & annotation.range`
PrintSourceStep(src, annotation, opts, lines, i, width, parts, source_line, indicate) ==
    IF IsError(source_line) THEN source_line
    ELSE IF IsError(indicate) THEN indicate
    ELSE PrintSourceLines(src, annotation, opts, lines, i + 1, width,
             IF indicate.tag = "None"
             THEN Append(parts, source_line.val)
             ELSE parts \o <<source_line.val,
                             print_indicator_line(src, indicate.val, lines[i], opts, width)>>)

\* the loop of print_source from lines[i] on; `parts` is the builder
PrintSourceLines(src, annotation, opts, lines, i, width, parts) ==
    IF i > Len(lines) THEN Ok(Join(parts, <<LF>>))
    ELSE PrintSourceStep(src, annotation, opts, lines, i, width, parts,
                         print_source_line(src, lines[i], opts, width),
                         Range_and(src, lines[i], annotation.range))

\* print_source once line_nums_width and the Lines of
\* annotation.range.full_lines().each_line() are known
PrintSourceOf(src, annotation, opts, width, lines) ==
    IF IsError(width) THEN width
    ELSE IF IsError(lines) THEN lines
    ELSE PrintSourceLines(src, annotation, opts, lines.val, 1, width.val, <<>>)

\* each_line of the Range full_lines returned
EachLineOf(src, full) == IF IsError(full) THEN full ELSE each_line(src, full.val)

\* Printer.print_source
print_source(src, printer, annotation) ==
    PrintSourceOf(src, annotation, printer[annotation.kind],
                  LineNumsWidth(Range_line_numbers(src, annotation.range)),
                  EachLineOf(src, full_lines(src, annotation.range)))

\* printer.print_source(Annotation(range, msg, kind)) once the Annotation is
\* built
PrintAnnotation(src, printer, annotation) ==
    IF IsError(annotation) THEN annotation
    ELSE print_source(src, printer, annotation.val)

\* ------------------------------------------------------------ state machine
NoCall == [op |-> "none"]

Init ==
    /\ source = <<>>
    /\ metrics = <<>>
    /\ call = NoCall
    /\ diagnostic = <<>>
    /\ given = <<>>

\* the arguments tried
Offsets == -1..(MaxText + 1)
LineCols == {LineCol(l, c) : l \in 0..(MaxText + 1), c \in 0..(MaxText + 2)}
\* the explicit sampling intervals and the default one
MaxSearches == 1..MaxSearch \cup {DefaultMaxSearch}
Lines == 0..(MaxText + 2)
\* the Annotation objects, by identity
Annotations == 1..MaxAnnotations
\* Range(source, begin, end) succeeds
IsRange(src, range) == IsOk(Range(src, range.begin, range.end))

\* the state after Source(...) returned `result` or raised
SourceReturns(content, line_ending, result) ==
    /\ source' = IF IsOk(result) THEN <<result.val>> ELSE <<>>
    /\ call' = [op |-> "Source", content |-> content,
                line_ending |-> line_ending, result |-> result.tag]

\* Source(content, line_ending=line_ending)
NewSource(content, line_ending) ==
    /\ call = NoCall
    /\ source = <<>>
    /\ SourceReturns(content, line_ending, Source(content, line_ending))
    /\ UNCHANGED <<metrics, diagnostic, given>>

\* Metrics(source, max_search)
NewMetrics(max_search) ==
    /\ call = NoCall
    /\ source # <<>>
    /\ metrics' = <<Metrics(source[1].content, max_search)>>
    /\ call' = [op |-> "Metrics", max_search |-> max_search]
    /\ UNCHANGED <<source, diagnostic, given>>

\* metrics.get_linecol(offset)
GetLinecol(offset) ==
    /\ call = NoCall
    /\ metrics # <<>>
    /\ call' = [op |-> "get_linecol", offset |-> offset,
                result |-> get_linecol(metrics[1], offset)]
    /\ UNCHANGED <<source, metrics, diagnostic, given>>

\* metrics.get_offset(linecol)
GetOffset(linecol) ==
    /\ call = NoCall
    /\ metrics # <<>>
    /\ call' = [op |-> "get_offset", linecol |-> linecol,
                result |-> get_offset(metrics[1], linecol)]
    /\ UNCHANGED <<source, metrics, diagnostic, given>>

\* metrics.line_count
LineCount ==
    /\ call = NoCall
    /\ metrics # <<>>
    /\ call' = [op |-> "line_count", result |-> line_count(metrics[1])]
    /\ UNCHANGED <<source, metrics, diagnostic, given>>

\* metrics.valid_line(line)
ValidLine(line) ==
    /\ call = NoCall
    /\ metrics # <<>>
    /\ call' = [op |-> "valid_line", line |-> line,
                result |-> valid_line(metrics[1], line)]
    /\ UNCHANGED <<source, metrics, diagnostic, given>>

\* Location(source, offset)
NewLocation(offset) ==
    /\ call = NoCall
    /\ source # <<>>
    /\ call' = [op |-> "Location", offset |-> offset,
                result |-> Location(source[1], offset)]
    /\ UNCHANGED <<source, metrics, diagnostic, given>>

\* range.full_lines()
FullLines(range) ==
    /\ call = NoCall
    /\ source # <<>>
    /\ IsRange(source[1], range)
    /\ call' = [op |-> "full_lines", range |-> range,
                result |-> full_lines(source[1], range)]
    /\ UNCHANGED <<source, metrics, diagnostic, given>>

\* [line.line_number for line in lines]: the outcome of reading line_number
\* on each Line yielded
LineNumbers(src, lines) ==
    IF IsOk(lines)
    THEN [i \in 1..Len(lines.val) |-> line_number(src, lines.val[i])]
    ELSE <<>>

\* the record of an each_line call
EachLineCall(src, range, lines) ==
    [op |-> "each_line", range |-> range, result |-> lines,
     line_numbers |-> LineNumbers(src, lines)]

\* [line.line_number for line in range.each_line()]
EachLine(range) ==
    /\ call = NoCall
    /\ source # <<>>
    /\ IsRange(source[1], range)
    /\ call' = EachLineCall(source[1], range, each_line(source[1], range))
    /\ UNCHANGED <<source, metrics, diagnostic, given>>

\* lhs < rhs
Lt(lhs, rhs) ==
    /\ call = NoCall
    /\ source # <<>>
    /\ IsRange(source[1], lhs)
    /\ IsRange(source[1], rhs)
    /\ call' = [op |-> "lt", lhs |-> lhs, rhs |-> rhs, result |-> Range_lt(lhs, rhs)]
    /\ UNCHANGED <<source, metrics, diagnostic, given>>

\* lhs & rhs
And(lhs, rhs) ==
    /\ call = NoCall
    /\ source # <<>>
    /\ IsRange(source[1], lhs)
    /\ IsRange(source[1], rhs)
    /\ call' = [op |-> "and", lhs |-> lhs, rhs |-> rhs,
                result |-> Range_and(source[1], lhs, rhs)]
    /\ UNCHANGED <<source, metrics, diagnostic, given>>

\* Printer().print_source(Annotation(range, msg, kind))
PrintSource(range, kind) ==
    /\ call = NoCall
    /\ source # <<>>
    /\ IsRange(source[1], range)
    /\ call' = [op |-> "print_source", range |-> range, kind |-> kind,
                result |-> PrintAnnotation(source[1], Printer,
                                           Annotation(source[1], range, kind))]
    /\ UNCHANGED <<source, metrics, diagnostic, given>>

\* Diagnostic(top)
NewDiagnostic(top) ==
    /\ call = NoCall
    /\ diagnostic = <<>>
    /\ diagnostic' = <<Diagnostic(top)>>
    /\ given' = <<top>>
    /\ call' = [op |-> "Diagnostic", top |-> top]
    /\ UNCHANGED <<source, metrics>>

\* diagnostic.add_cause(cause); the result is the object returned
AddCause(cause) ==
    /\ call = NoCall
    /\ diagnostic # <<>>
    /\ Len(given) <= MaxCauses
    /\ diagnostic' = <<Diagnostic_add_cause(diagnostic[1], cause)>>
    /\ given' = Append(given, cause)
    /\ call' = [op |-> "add_cause", cause |-> cause,
                result |-> Diagnostic_add_cause(diagnostic[1], cause)]
    /\ UNCHANGED <<source, metrics>>

\* list(diagnostic)
Iterate ==
    /\ call = NoCall
    /\ diagnostic # <<>>
    /\ call' = [op |-> "iter", result |-> Diagnostic_iter(diagnostic[1])]
    /\ UNCHANGED <<source, metrics, diagnostic, given>>

\* len(diagnostic)
Length ==
    /\ call = NoCall
    /\ diagnostic # <<>>
    /\ call' = [op |-> "len", result |-> Diagnostic_len(diagnostic[1])]
    /\ UNCHANGED <<source, metrics, diagnostic, given>>

\* diagnostic.root_cause
RootCause ==
    /\ call = NoCall
    /\ diagnostic # <<>>
    /\ call' = [op |-> "root_cause", result |-> Diagnostic_root_cause(diagnostic[1])]
    /\ UNCHANGED <<source, metrics, diagnostic, given>>

\* the call returns to the caller; the program is single-threaded and
\* synchronous, so the next call starts only then
Return ==
    /\ call # NoCall
    /\ call' = NoCall
    /\ UNCHANGED <<source, metrics, diagnostic, given>>

AllRanges == [begin : 0..MaxText, end : 0..MaxText]

\* Source construction in every line-ending mode
NextSource ==
    \/ \E content \in RawTexts, line_ending \in LineEndings : NewSource(content, line_ending)
    \/ Return

SpecSource == Init /\ [][NextSource]_vars

\* a Source of LF text and a Metrics index over it
NextMetrics ==
    \/ \E content \in Texts : NewSource(content, "LF")
    \/ \E max_search \in MaxSearches : NewMetrics(max_search)
    \/ \E offset \in Offsets : GetLinecol(offset)
    \/ \E linecol \in LineCols : GetOffset(linecol)
    \/ LineCount
    \/ \E line \in Lines : ValidLine(line)
    \/ Return

SpecMetrics == Init /\ [][NextMetrics]_vars

\* a Source of LF text and the Locations and Ranges over it
NextRange ==
    \/ \E content \in Texts : NewSource(content, "LF")
    \/ \E offset \in Offsets : NewLocation(offset)
    \/ \E range \in AllRanges : FullLines(range)
    \/ \E range \in AllRanges : EachLine(range)
    \/ \E lhs \in AllRanges, rhs \in AllRanges : Lt(lhs, rhs)
    \/ \E lhs \in AllRanges, rhs \in AllRanges : And(lhs, rhs)
    \/ Return

SpecRange == Init /\ [][NextRange]_vars

\* a Source of LF text with blanks and the source excerpts printed for
\* Annotations over it
NextPrinter ==
    \/ \E content \in PrintTexts : NewSource(content, "LF")
    \/ \E range \in AllRanges : PrintSource(range, "ERROR")
    \/ Return

SpecPrinter == Init /\ [][NextPrinter]_vars

\* a Diagnostic and its causal chain
NextDiagnostic ==
    \/ \E top \in Annotations : NewDiagnostic(top)
    \/ \E cause \in Annotations : AddCause(cause)
    \/ Iterate
    \/ Length
    \/ RootCause
    \/ Return

SpecDiagnostic == Init /\ [][NextDiagnostic]_vars

\* ------------------------------------------------ physical lines of a text
\* 1-based number of the physical line holding offset o: one more than the
\* number of '\n' before o
PhysicalLine(content, o) == 1 + Cardinality({i \in 1..o : content[i] = LF})

\* offset of the first character of the physical line holding offset o
LineStartOf(content, o) == Max({p \in 0..o : p = 0 \/ content[p] = LF})

\* end of the physical line holding offset o: the offset of its '\n', or the
\* length of the text when the line has none
LineEndOf(content, o) ==
    Min({p \in o..Len(content) : p = Len(content) \/ content[p + 1] = LF})

\* ------------------------------------------------------------------ claims

\* C1: offset round trip.  For every valid offset o (0 <= o <= len(text)),
\* get_offset(get_linecol(o)) completes without error and returns o.
OffsetRoundTrip ==
    (call.op = "get_linecol" /\ valid_offset(metrics[1], call.offset)) =>
        /\ IsOk(call.result)
        /\ LET back == get_offset(metrics[1], call.result.val)
           IN  IsOk(back) /\ back.val = call.offset

\* C2: line-col round trip.  For every sampling interval and every line-col
\* lc accepted by valid_linecol, get_offset(lc) returns an offset (never
\* None, never an error) and get_linecol of that offset is lc again.
LinecolRoundTrip ==
    (call.op = "get_offset" /\ valid_linecol(metrics[1], call.linecol)) =>
        /\ IsOk(call.result)
        /\ LET back == get_linecol(metrics[1], call.result.val)
           IN  IsOk(back) /\ back.val = call.linecol

\* C2 witness: a valid line-col that is not a checkpoint was looked up in an
\* index of several checkpoints, by a scan that started at a later checkpoint
\* than the first
LinecolRoundTripWitness ==
    /\ call.op = "get_offset"
    /\ valid_linecol(metrics[1], call.linecol)
    /\ ~InSeq(call.linecol, metrics[1].linecol_map.linecols)
    /\ Len(metrics[1].linecol_map.offsets) >= 2
    /\ lower_bound_index_linecol(metrics[1].linecol_map.linecols, call.linecol) >= 1
    /\ IsOk(call.result)
    /\ call.result.val > 0

\* C3: Location(source, offset) succeeds for every offset in [0, len(text)]
\* and raises ValueError for every other offset; it raises nothing else.
LocationTotal ==
    call.op = "Location" =>
        call.result.tag = IF 0 <= call.offset /\ call.offset <= Len(source[1].content)
                          THEN "ok" ELSE "ValueError"

\* C4: r.full_lines() succeeds for every valid Range r and returns a
\* superset of r that begins at the start of r's first line and ends at the
\* end of r's last line.
FullLinesSuperset ==
    call.op = "full_lines" =>
        /\ IsOk(call.result)
        /\ call.result.val.begin <= call.range.begin
        /\ call.range.end <= call.result.val.end
        /\ call.result.val.begin = LineStartOf(source[1].content, call.range.begin)
        /\ call.result.val.end = LineEndOf(source[1].content, call.range.end)

\* C5: full_lines is idempotent.  For every valid Range r,
\* r.full_lines().full_lines() is defined and equal to r.full_lines().
FullLinesIdempotent ==
    call.op = "full_lines" =>
        /\ IsOk(call.result)
        /\ LET again == full_lines(source[1], call.result.val)
           IN  IsOk(again) /\ Range_eq(again.val, call.result.val)

\* C6 as claimed: A < B iff exactly one of (A.begin = B.begin and
\* B.begin < A.end < B.end), (A.end = B.end and B.begin < A.begin < B.end).
RangeLtAsClaimed ==
    call.op = "lt" =>
        LET A == call.lhs
            B == call.rhs
            at_begin == A.begin = B.begin /\ B.begin < A.end /\ A.end < B.end
            at_end == A.end = B.end /\ B.begin < A.begin /\ A.begin < B.end
        IN  call.result = (at_begin # at_end)

\* C6 amended: A < B iff exactly one of (A.begin = B.begin and
\* B.begin <= A.end < B.end), (A.end = B.end and B.begin < A.begin < B.end);
\* so an empty A at the begin of a non-empty B is ordered before B.  A < B
\* is false when A equals B, when A lies strictly inside B touching neither
\* edge, and when A and B share no offset unless A is that empty range.
RangeLtNested ==
    call.op = "lt" =>
        LET A == call.lhs
            B == call.rhs
            at_begin == A.begin = B.begin /\ B.begin <= A.end /\ A.end < B.end
            at_end == A.end = B.end /\ B.begin < A.begin /\ A.begin < B.end
            disjoint == ~\E o \in 0..MaxText + 1 :
                            /\ A.begin <= o /\ o < A.end
                            /\ B.begin <= o /\ o < B.end
        IN  /\ call.result = (at_begin # at_end)
            /\ A = B => ~call.result
            /\ (B.begin < A.begin /\ A.end < B.end) => ~call.result
            /\ (disjoint /\ ~(A.begin = A.end /\ A.begin = B.begin /\ B.begin < B.end))
                   => ~call.result

\* C6 witness: an empty range at the begin of a non-empty range was compared
\* with it and found to be ordered before it
RangeLtNestedWitness ==
    /\ call.op = "lt"
    /\ call.lhs.begin = call.lhs.end
    /\ call.lhs.begin = call.rhs.begin
    /\ call.rhs.begin < call.rhs.end
    /\ call.lhs.begin > 0
    /\ call.result

\* C7: a & b is None exactly when no offset lies in both [a.begin, a.end)
\* and [b.begin, b.end); otherwise it is the Range
\* [max(a.begin, b.begin), min(a.end, b.end)), non-empty and inside a and b.
RangeAndIntersection ==
    call.op = "and" =>
        LET a == call.lhs
            b == call.rhs
            common == {o \in 0..Len(source[1].content) :
                          /\ a.begin <= o /\ o < a.end
                          /\ b.begin <= o /\ o < b.end}
        IN  IF common = {} THEN call.result.tag = "None"
            ELSE /\ IsOk(call.result)
                 /\ call.result.val.begin = Max({a.begin, b.begin})
                 /\ call.result.val.end = Min({a.end, b.end})
                 /\ call.result.val.begin < call.result.val.end
                 /\ a.begin <= call.result.val.begin /\ call.result.val.end <= a.end
                 /\ b.begin <= call.result.val.begin /\ call.result.val.end <= b.end
                 /\ common = call.result.val.begin..(call.result.val.end - 1)

\* C7 witness: two ranges that overlap in part, neither inside the other,
\* were intersected and gave a Range
RangeAndWitness ==
    /\ call.op = "and"
    /\ call.lhs.begin < call.rhs.begin
    /\ call.rhs.begin < call.lhs.end
    /\ call.lhs.end < call.rhs.end
    /\ IsOk(call.result)

\* C8: r.each_line() yields, in increasing line order, exactly one Line for
\* each physical line with a character inside r; each Line lies within r and
\* holds no newline; each Line's line_number can be read and is the number of
\* that physical line.  An empty range yields no Line.
EachLinePerPhysicalLine ==
    call.op = "each_line" =>
        LET content == source[1].content
            r == call.range
            touched == {PhysicalLine(content, o) : o \in r.begin..(r.end - 1)}
        IN  /\ IsOk(call.result)
            /\ Len(call.result.val) = Cardinality(touched)
            /\ \A i \in 1..Len(call.result.val) :
                   LET line == call.result.val[i]
                   IN  /\ r.begin <= line.begin /\ line.begin <= line.end /\ line.end <= r.end
                       /\ \A o \in line.begin..(line.end - 1) : content[o + 1] # LF
                       /\ PhysicalLine(content, line.begin) = Min(touched) + i - 1
                       /\ IsOk(call.line_numbers[i])
                       /\ call.line_numbers[i].val = Min(touched) + i - 1

\* C9: in DETECT mode the first '\n' of the text decides: no '\n' fails with
\* LineEndingDetectionFailed; a first '\n' preceded by '\r' adopts CRLF (every
\* "\r\n" replaced by "\n"); a bare first '\n' adopts LF (text unchanged),
\* even when a "\r\n" occurs later.
DetectByFirstNewline ==
    (call.op = "Source" /\ call.line_ending = "DETECT") =>
        LET content == call.content
            newlines == {i \in 1..Len(content) : content[i] = LF}
        IN  IF newlines = {} THEN call.result = "LineEndingDetectionFailed"
            ELSE /\ call.result = "ok"
                 /\ source # <<>>
                 /\ source[1].content =
                        IF Min(newlines) > 1 /\ content[Min(newlines) - 1] = CR
                        THEN Replace(content, <<CR, LF>>, <<LF>>)
                        ELSE content

\* C10: the content of every constructed Source, whatever the input text and
\* the line-ending mode, holds no '\r'.
ContentHasNoCR ==
    source # <<>> => \A i \in 1..Len(source[1].content) : source[1].content[i] # CR

\* number of '\n' characters of a text
NewlineCount(content) == Cardinality({i \in 1..Len(content) : content[i] = LF})

\* the text is not empty and its final line has no trailing '\n'
EndsWithoutNewline(content) == content # <<>> /\ content[Len(content)] # LF

\* C11: line_count counts every physical line, the final line without a
\* trailing newline included.  A non-empty text with n '\n' that does not end
\* in '\n' has line_count = n + 1 and valid_line(n + 1) is true; a text that
\* ends in '\n' has line_count = n.
LineCountCountsFinalLine ==
    /\ call.op = "line_count" =>
           call.result = NewlineCount(metrics[1].source)
                         + (IF EndsWithoutNewline(metrics[1].source) THEN 1 ELSE 0)
    /\ (/\ call.op = "valid_line"
        /\ EndsWithoutNewline(metrics[1].source)
        /\ call.line = NewlineCount(metrics[1].source) + 1) => call.result

\* C14: the sparse index equals naive counting.  For every sampling interval
\* and every offset o with 0 <= o < len(text), get_linecol(o) is
\* (1 + number of '\n' in text[0:o], 1 + number of characters between the
\* start of o's line and o), whichever checkpoint the search selects.
SparseIndexIsNaiveCount ==
    (call.op = "get_linecol" /\ 0 <= call.offset /\ call.offset < Len(metrics[1].source)) =>
        /\ IsOk(call.result)
        /\ call.result.val.line = PhysicalLine(metrics[1].source, call.offset)
        /\ call.result.val.col =
               1 + call.offset - LineStartOf(metrics[1].source, call.offset)

\* C14 witness: an offset that is no checkpoint, on the second line or later,
\* was looked up in an index of several checkpoints by a scan that started at
\* a later checkpoint than the first
SparseIndexWitness ==
    /\ call.op = "get_linecol"
    /\ 0 <= call.offset /\ call.offset < Len(metrics[1].source)
    /\ ~InSeq(call.offset, metrics[1].linecol_map.offsets)
    /\ Len(metrics[1].linecol_map.offsets) >= 2
    /\ lower_bound_index_int(metrics[1].linecol_map.offsets, call.offset) >= 1
    /\ IsOk(call.result)
    /\ call.result.val.line >= 2
    /\ call.result.val.col >= 2

\* C15: end-of-source mapping.  For every text with a recorded line,
\* get_linecol(len(text)) is one past the final column of the last recorded
\* line L, (L, col_count(L) + 1), and so differs from the line-col of every
\* smaller offset.
EndOfSourceOnePast ==
    (/\ call.op = "get_linecol"
     /\ call.offset = Len(metrics[1].source)
     /\ DOMAIN metrics[1].linecol_counts # {}) =>
        /\ IsOk(call.result)
        /\ LET L == Max(DOMAIN metrics[1].linecol_counts)
           IN  /\ call.result.val.line = L
               /\ call.result.val.col = metrics[1].linecol_counts[L] + 1
        /\ \A o \in 0..(call.offset - 1) :
               get_linecol(metrics[1], o).val # call.result.val

\* C12: after Diagnostic(top) and add_cause(c1), ..., add_cause(cn), iterating
\* the Diagnostic yields top, c1, ..., cn in that order, len is n + 1, every
\* add_cause returned the Diagnostic itself, and root_cause is the last
\* element of the iteration (cn, or top when n = 0).
DiagnosticChain ==
    diagnostic # <<>> =>
        /\ Diagnostic_iter(diagnostic[1]) = given
        /\ Diagnostic_len(diagnostic[1]) = Len(given)
        /\ Diagnostic_root_cause(diagnostic[1]) = given[Len(given)]
        /\ call.op = "iter" => call.result = given
        /\ call.op = "len" => call.result = Len(given)
        /\ call.op = "root_cause" => call.result = given[Len(given)]
        /\ call.op = "add_cause" =>
               /\ call.result = diagnostic[1]
               /\ given[Len(given)] = call.cause

\* C12 witness: root_cause was read after three add_cause calls with causes
\* that differ from one another and from the top Annotation
DiagnosticChainWitness ==
    /\ diagnostic # <<>>
    /\ Len(given) = 3
    /\ Cardinality({given[i] : i \in 1..3}) = 3
    /\ call.op = "root_cause"
    /\ call.result = given[3]

\* a printed text without its trailing blanks
RECURSIVE RTrim(_)
RTrim(str) ==
    IF str # <<>> /\ str[Len(str)] = " " THEN RTrim(SubSeq(str, 1, Len(str) - 1)) ELSE str

\* the lines of a printed text, split at '\n'; the empty text has no line
RECURSIVE SplitLines(_)
SplitLines(str) ==
    IF str = <<>> THEN <<>>
    ELSE IF \E i \in 1..Len(str) : str[i] = LF
         THEN LET i == Min({j \in 1..Len(str) : str[j] = LF})
              IN  <<SubSeq(str, 1, i - 1)>> \o
                  (IF i = Len(str) THEN <<<<>>>> ELSE SplitLines(SubSeq(str, i + 1, Len(str))))
         ELSE <<str>>

\* offset o of the span [begin, end) is leading whitespace of the span
LeadingWhitespace(content, begin, o) ==
    \A p \in begin..o : IsSpace(content[p + 1])

\* the indicator line the claim describes for `line` and the annotation
\* `range`: the prefix of the source line with a gap for the number, then a
\* caret in exactly the columns of the line's characters that lie in the
\* intersection and are not leading whitespace of it
CaretLine(content, line, range, width) ==
    LinePrefix(PrintOpts, Repeat(" ", width)) \o
    [c \in 1..(line.end - line.begin) |->
        LET o == line.begin + c - 1
        IN  IF /\ range.begin <= o /\ o < range.end
               /\ ~LeadingWhitespace(content, Max({line.begin, range.begin}), o)
            THEN "^" ELSE " "]

\* the lines the claim describes for the Lines of range.full_lines(): each
\* source line, followed by its indicator line when the Line and the range
\* share a character
RECURSIVE CaretLines(_, _, _, _, _)
CaretLines(content, lines, i, range, width) ==
    IF i > Len(lines) THEN <<>>
    ELSE <<LinePrefix(PrintOpts,
                      Rjust(Str(PhysicalLine(content, lines[i].begin)), width))
           \o SubSeq(content, lines[i].begin + 1, lines[i].end)>>
         \o (IF Max({lines[i].begin, range.begin}) < Min({lines[i].end, range.end})
             THEN <<CaretLine(content, lines[i], range, width)>> ELSE <<>>)
         \o CaretLines(content, lines, i + 1, range, width)

\* every Line that shares characters with the range shares one that is no
\* whitespace, so that the indicator line has a caret to place
AnnotatesText(content, lines, range) ==
    \A i \in 1..Len(lines) :
        Max({lines[i].begin, range.begin}) < Min({lines[i].end, range.end}) =>
            \E o \in Max({lines[i].begin, range.begin})..(Min({lines[i].end, range.end}) - 1) :
                ~IsSpace(content[o + 1])

\* C13: caret alignment.  For every annotation range whose full_lines()
\* exists and every line of it that shares a character with the range, the
\* indicator line printed right after the source line has the same prefix
\* width and a caret in text column c iff the character of the source line
\* at column c lies in the intersection and is not leading whitespace of it;
\* lines that share no character with the range get no indicator line.
\* Stated for the ranges that annotate some text on each of their lines.
CaretsUnderAnnotated ==
    (/\ call.op = "print_source"
     /\ IsOk(full_lines(source[1], call.range))
     /\ AnnotatesText(source[1].content,
                      each_line(source[1], full_lines(source[1], call.range).val).val,
                      call.range)) =>
        /\ IsOk(call.result)
        /\ LET lines == each_line(source[1], full_lines(source[1], call.range).val).val
               width == Len(Str(line_count(source[1].metrics) + 1))
               printed == SplitLines(call.result.val)
               claimed == CaretLines(source[1].content, lines, 1, call.range, width)
           IN  /\ Len(printed) = Len(claimed)
               /\ \A i \in 1..Len(printed) : RTrim(printed[i]) = RTrim(claimed[i])
====
